---- MODULE Spec2Model ----
(***************************************************************************)
(* Command dispatch and connection lifecycle of the touch remote           *)
(* (main.py): the seventeen buttons of the layout, the lazily cached       *)
(* control facade of each WebOS button, the shared connection adapter and  *)
(* the wake-on-LAN path of the power-on button.                            *)
(*                                                                         *)
(* A Python str is modelled as the sequence of its characters, so that     *)
(* str.lower() is computed character by character.  Python's None is the   *)
(* record NoneVal; "no exception" is the class name "None".                *)
(***************************************************************************)
EXTENDS Integers, Sequences, FiniteSets, TLC

\* Number of button presses explored in one run of the application.
MaxPresses == 2

VARIABLES
    host,        \* settings.get('living_room').host, read once by build()
    _control,    \* WebOsButton._control of every WebOS button
    handles,     \* connection handles cached by the shared adapter
    ctorCount,   \* per button: facade constructor calls made so far
    connectCount,\* per button: connect_input calls made so far
    failedLast,  \* per button: its latest press raised an OSError
    presses,     \* number of presses dispatched so far
    lastButton,  \* the button of the latest press
    lastFault,   \* the network operation that was failing in the latest press
    trace,       \* calls made to the collaborators during the latest press
    raised,      \* exception class raised inside the latest on_press
    printed,     \* the latest on_press printed (logged) the exception
    crashed      \* an exception left on_press and ended the event loop

vars == <<host, _control, handles, ctorCount, connectCount, failedLast,
          presses, lastButton, lastFault, trace, raised, printed, crashed>>

NoneVal == [cls |-> "NoneType"]

----------------------------------------------------------------------------
(* The layout built by TouchRemoteApp.build: one widget per class.         *)

SystemButtons == {"PowerOff"}
MediaButtons == {"VolumeUp", "VolumeDown", "Rewind", "Pause", "Play",
                 "FastForward", "Mute"}
ApplicationButtons == {"SettingsApp"}
InputButtons == {"Home", "Back", "Up", "Left", "Right", "Down", "Ok"}
WebOsButtons == SystemButtons \cup MediaButtons \cup ApplicationButtons
                  \cup InputButtons
Buttons == WebOsButtons \cup {"PowerOn"}

\* The two arguments every control property passes to adapter.create.
ConfigPath == "~/.lgtv.yaml"
DeviceName == "living_room"

\* Hosts the settings file may configure for the device.
Hosts == {"192.168.1.50", "10.0.0.7"}

----------------------------------------------------------------------------
(* The command property of every concrete button class.                    *)

PowerOff_command == <<"p","o","w","e","r","_","o","f","f">>
VolumeUp_command == <<"v","o","l","u","m","e","_","u","p">>
VolumeDown_command == <<"v","o","l","u","m","e","_","d","o","w","n">>
Rewind_command == <<"r","e","w","i","n","d">>
Pause_command == <<"p","a","u","s","e">>
Play_command == <<"p","l","a","y">>
FastForward_command == <<"f","a","s","t","_","f","o","r","w","a","r","d">>
Home_command == <<"h","o","m","e">>
Back_command == <<"b","a","c","k">>
Up_command == <<"u","p">>
Left_command == <<"l","e","f","t">>
Right_command == <<"r","i","g","h","t">>
Down_command == <<"d","o","w","n">>
Ok_command == <<"o","k">>
Mute_command == <<"m","u","t","e">>
SettingsApp_command == <<"c","o","m",".","p","a","l","m",".","a","p","p",".","s","e","t","t","i","n","g","s">>

Command(b) ==
    CASE b = "PowerOff" -> PowerOff_command
      [] b = "VolumeUp" -> VolumeUp_command
      [] b = "VolumeDown" -> VolumeDown_command
      [] b = "Rewind" -> Rewind_command
      [] b = "Pause" -> Pause_command
      [] b = "Play" -> Play_command
      [] b = "FastForward" -> FastForward_command
      [] b = "Home" -> Home_command
      [] b = "Back" -> Back_command
      [] b = "Up" -> Up_command
      [] b = "Left" -> Left_command
      [] b = "Right" -> Right_command
      [] b = "Down" -> Down_command
      [] b = "Ok" -> Ok_command
      [] b = "Mute" -> Mute_command
      [] b = "SettingsApp" -> SettingsApp_command

\* str.lower(), character by character.
UpperCase == <<"A","B","C","D","E","F","G","H","I","J","K","L","M",
               "N","O","P","Q","R","S","T","U","V","W","X","Y","Z">>
LowerCase == <<"a","b","c","d","e","f","g","h","i","j","k","l","m",
               "n","o","p","q","r","s","t","u","v","w","x","y","z">>
LowerChar(c) ==
    IF \E i \in 1..26 : UpperCase[i] = c
      THEN LowerCase[CHOOSE i \in 1..26 : UpperCase[i] = c]
      ELSE c
Lower(s) == [i \in 1..Len(s) |-> LowerChar(s[i])]

----------------------------------------------------------------------------
(* Exceptions.  ConnectionError is a subclass of OSError, so the clause    *)
(* "except OSError" catches both; nothing else is caught.                  *)

IsOSError(exc) == exc \in {"OSError", "ConnectionError"}

\* The class of the error a failing network operation raises: a failed
\* connection is a ConnectionError, a failed request an OSError (IOError).
FaultError(fault) == IF fault = "create" THEN "ConnectionError" ELSE "OSError"

\* What the environment does during one press of WebOS button b: the
\* network operation that fails if the press performs it and, for an Input
\* button, the class of the error the protocol client raises for a command
\* sent on a facade whose input channel was never connected.
WebOsIos(b) ==
    IF b \in InputButtons
      THEN [fault : {"none", "create", "connect_input", "command"},
            lib : {"OSError", "AttributeError"}, mac : {"n/a"}]
      ELSE [fault : {"none", "create", "command"}, lib : {"n/a"},
            mac : {"n/a"}]

\* What the environment does during one press of the power-on button: the
\* result of the address lookup (None when the host is not resolved) and
\* then either whether sending the packet fails or, for a None address, the
\* class of the error send_magic_packet raises.
PowerOnIos ==
    [fault : {"none", "send_magic_packet"}, lib : {"n/a"},
     mac : {"aa:bb:cc:dd:ee:ff"}]
    \cup [fault : {"none"}, lib : {"TypeError", "AttributeError"},
          mac : {"None"}]

\* One call made to a collaborator.
Event(call, on, name, args, ret) ==
    [call |-> call, on |-> on, name |-> name, args |-> args, ret |-> ret]

CountCalls(calls, call) ==
    Cardinality({i \in 1..Len(calls) : calls[i].call = call})

----------------------------------------------------------------------------
(* The collaborators.                                                      *)

\* adapter.create(path, name): the handle cached for (path, name), else a new
\* connection, which is cached; a failed connection caches nothing.
WebOSClientAdapter_create(cache, path, name, io) ==
    LET hit == {h \in cache : h.path = path /\ h.name = name}
        ev(ret) == Event("adapter.create", <<"adapter">>, <<>>,
                         <<path, name>>, ret)
    IN  IF hit # {}
          THEN LET h == CHOOSE h \in hit : TRUE
               IN  [cache |-> cache, ret |-> h, exc |-> "None",
                    calls |-> <<ev(h)>>]
          ELSE IF io.fault = "create"
            THEN [cache |-> cache, ret |-> NoneVal,
                  exc |-> FaultError(io.fault), calls |-> <<ev(NoneVal)>>]
            ELSE LET h == [cls |-> "WebOSClient", path |-> path,
                           name |-> name, serial |-> Cardinality(cache) + 1]
                 IN  [cache |-> cache \cup {h}, ret |-> h, exc |-> "None",
                      calls |-> <<ev(h)>>]

\* SystemControl(client), MediaControl(client), ApplicationControl(client),
\* InputControl(client): a new facade object wrapping the handle.
NewControl(cls, self, client) ==
    [cls |-> cls, id |-> <<self.name, self.ctors + 1>>, client |-> client,
     connected |-> FALSE]

CtorEvent(f) == Event("construct", f.id, <<>>, <<f.client>>, f.cls)

\* InputControl.connect_input(): opens the input channel of the facade.
InputControl_connect_input(f, io) ==
    LET ev == Event("connect_input", f.id, <<>>, <<>>, "None")
    IN  IF io.fault = "connect_input"
          THEN [facade |-> f, exc |-> FaultError(io.fault), calls |-> <<ev>>]
          ELSE [facade |-> [f EXCEPT !.connected = TRUE], exc |-> "None",
                calls |-> <<ev>>]

\* A command of a facade: an input command needs the connected channel.
Control_call(f, call, name, args, io) ==
    LET ev == Event(call, f.id, name, args, "None")
    IN  IF f.cls = "InputControl" /\ ~f.connected
          THEN [exc |-> io.lib, calls |-> <<ev>>]
          ELSE IF io.fault = "command"
            THEN [exc |-> FaultError(io.fault), calls |-> <<ev>>]
            ELSE [exc |-> "None", calls |-> <<ev>>]

\* getmac.get_mac_address(ip=host): the address, or None.
get_mac_address(ip, io) ==
    [ret |-> io.mac,
     calls |-> <<Event("get_mac_address", <<"getmac">>, <<>>, <<ip>>,
                       io.mac)>>]

\* wakeonlan.send_magic_packet(mac)
send_magic_packet(mac, io) ==
    LET ev == Event("send_magic_packet", <<"wakeonlan">>, <<>>, <<mac>>,
                   "None")
    IN  IF mac = "None" THEN [exc |-> io.lib, calls |-> <<ev>>]
        ELSE IF io.fault = "send_magic_packet"
          THEN [exc |-> FaultError(io.fault), calls |-> <<ev>>]
          ELSE [exc |-> "None", calls |-> <<ev>>]

----------------------------------------------------------------------------
(* The control property of the four button classes.  self is the button:   *)
(* its name, its _control attribute and the number of facades it has       *)
(* constructed; cache is the state of the adapter it was given.            *)

\* Mutation of LazyControl: the test "self._control is None" is left out, so
\* every access constructs a new facade.
LazyControl_AlwaysConstruct(cls, path, name, self, cache, io) ==
    LET a == WebOSClientAdapter_create(cache, path, name, io)
    IN  IF a.exc # "None"
          THEN [_control |-> self._control, cache |-> a.cache,
                ret |-> NoneVal, exc |-> a.exc, calls |-> a.calls]
          ELSE LET f == NewControl(cls, self, a.ret)
               IN  [_control |-> f, cache |-> a.cache, ret |-> f,
                    exc |-> "None", calls |-> a.calls \o <<CtorEvent(f)>>]

\* The body shared by SystemButton, MediaButton and ApplicationButton:
\* "if self._control is None:
\*      self._control = Cls(self.adapter.create(path, name))
\*  return self._control".
LazyControl(cls, path, name, self, cache, io) ==
    IF self._control = NoneVal
      THEN LET a == WebOSClientAdapter_create(cache, path, name, io)
           IN  IF a.exc # "None"
                 THEN [_control |-> self._control, cache |-> a.cache,
                       ret |-> NoneVal, exc |-> a.exc, calls |-> a.calls]
                 ELSE LET f == NewControl(cls, self, a.ret)
                      IN  [_control |-> f, cache |-> a.cache, ret |-> f,
                           exc |-> "None",
                           calls |-> a.calls \o <<CtorEvent(f)>>]
      ELSE [_control |-> self._control, cache |-> cache,
            ret |-> self._control, exc |-> "None", calls |-> <<>>]

\* Mutation of SystemButton.control: it constructs a MediaControl.
SystemButton_control_MediaFacade(self, cache, io) ==
    LazyControl("MediaControl", ConfigPath, DeviceName, self, cache, io)

SystemButton_control(self, cache, io) ==
    LazyControl("SystemControl", ConfigPath, DeviceName, self, cache, io)

\* Mutation of MediaButton.control: it asks the adapter for another device.
MediaButton_control_OtherDevice(self, cache, io) ==
    LazyControl("MediaControl", ConfigPath, "bedroom", self, cache, io)

MediaButton_control(self, cache, io) ==
    LazyControl("MediaControl", ConfigPath, DeviceName, self, cache, io)

ApplicationButton_control(self, cache, io) ==
    LazyControl("ApplicationControl", ConfigPath, DeviceName, self, cache, io)

\* Mutation of InputButton.control: connect_input is called outside the
\* "is None" branch, on every access.
InputButton_control_Reconnect(self, cache, io) ==
    LET g == LazyControl("InputControl", ConfigPath, DeviceName, self, cache,
                         io)
    IN  IF g.exc # "None" THEN g
        ELSE LET c == InputControl_connect_input(g.ret, io)
             IN  [_control |-> c.facade, cache |-> g.cache,
                  ret |-> IF c.exc = "None" THEN c.facade ELSE NoneVal,
                  exc |-> c.exc, calls |-> g.calls \o c.calls]

\* InputButton.control assigns self._control before it calls connect_input.
InputButton_control(self, cache, io) ==
    IF self._control = NoneVal
      THEN LET a == WebOSClientAdapter_create(cache, ConfigPath, DeviceName,
                                              io)
           IN  IF a.exc # "None"
                 THEN [_control |-> self._control, cache |-> a.cache,
                       ret |-> NoneVal, exc |-> a.exc, calls |-> a.calls]
                 ELSE LET f == NewControl("InputControl", self, a.ret)
                          c == InputControl_connect_input(f, io)
                      IN  [_control |-> c.facade, cache |-> a.cache,
                           ret |-> IF c.exc = "None" THEN c.facade
                                   ELSE NoneVal,
                           exc |-> c.exc,
                           calls |-> a.calls \o <<CtorEvent(f)>> \o c.calls]
      ELSE [_control |-> self._control, cache |-> cache,
            ret |-> self._control, exc |-> "None", calls |-> <<>>]

\* self.control of the classes that inherit WebOsButton.on_press.
WebOsButton_control(self, cache, io) ==
    IF self.name \in SystemButtons THEN SystemButton_control(self, cache, io)
    ELSE IF self.name \in MediaButtons
      THEN MediaButton_control(self, cache, io)
      ELSE InputButton_control(self, cache, io)

----------------------------------------------------------------------------
(* on_press of the three dispatch sites.                                   *)

\* "try: ... except OSError as e: print(e)": the result of the body with the
\* exception printed if it is an OSError and leaving on_press otherwise.
TryExceptOSError(r) ==
    [_control |-> r._control, cache |-> r.cache, calls |-> r.calls,
     exc |-> r.exc,
     printed |-> IsOSError(r.exc),
     escaped |-> r.exc # "None" /\ ~IsOSError(r.exc)]

\* getattr(self.control, self.command.lower())()
WebOsButton_on_press(self, cache, io) ==
    LET c == WebOsButton_control(self, cache, io)
    IN  IF c.exc # "None" THEN TryExceptOSError(c)
        ELSE LET m == Control_call(c.ret, "method",
                                   Lower(Command(self.name)), <<>>, io)
             IN  TryExceptOSError([c EXCEPT !.exc = m.exc,
                                            !.calls = c.calls \o m.calls])

\* Mutation of ApplicationButton.on_press: the override is missing and the
\* inherited dispatch, getattr by the command string, runs.
ApplicationButton_on_press_Getattr(self, cache, io) ==
    LET c == ApplicationButton_control(self, cache, io)
    IN  IF c.exc # "None" THEN TryExceptOSError(c)
        ELSE LET m == Control_call(c.ret, "method",
                                   Lower(Command(self.name)), <<>>, io)
             IN  TryExceptOSError([c EXCEPT !.exc = m.exc,
                                            !.calls = c.calls \o m.calls])

\* self.control.launch(Application({'id': self.command}))
ApplicationButton_on_press(self, cache, io) ==
    LET c == ApplicationButton_control(self, cache, io)
    IN  IF c.exc # "None" THEN TryExceptOSError(c)
        ELSE LET m == Control_call(c.ret, "launch", <<>>,
                                   <<[id |-> Command(self.name)]>>, io)
             IN  TryExceptOSError([c EXCEPT !.exc = m.exc,
                                            !.calls = c.calls \o m.calls])

\* Mutation of PowerOn.on_press: it connects to the television through the
\* adapter before it sends the wake packet.
PowerOn_on_press_ViaClient(settings, cache, io) ==
    LET a == WebOSClientAdapter_create(cache, ConfigPath, DeviceName, io)
        g == get_mac_address(settings.host, io)
        s == send_magic_packet(g.ret, io)
    IN  [cache |-> a.cache, calls |-> a.calls \o g.calls \o s.calls,
         exc |-> s.exc, printed |-> FALSE, escaped |-> s.exc # "None"]

\* send_magic_packet(get_mac_address(ip=self.settings.host)), with no
\* exception handler around it.
PowerOn_on_press(settings, cache, io) ==
    LET g == get_mac_address(settings.host, io)
        s == send_magic_packet(g.ret, io)
    IN  [cache |-> cache, calls |-> g.calls \o s.calls, exc |-> s.exc,
         printed |-> FALSE, escaped |-> s.exc # "None"]

----------------------------------------------------------------------------
(* The state machine: the application after build(), then one action per   *)
(* press.  An exception that leaves on_press ends the event loop.          *)

Init ==
    /\ host \in Hosts
    /\ _control = [b \in WebOsButtons |-> NoneVal]
    /\ handles = {}
    /\ ctorCount = [b \in WebOsButtons |-> 0]
    /\ connectCount = [b \in WebOsButtons |-> 0]
    /\ failedLast = [b \in Buttons |-> FALSE]
    /\ presses = 0
    /\ lastButton = "None"
    /\ lastFault = "none"
    /\ trace = <<>>
    /\ raised = "None"
    /\ printed = FALSE
    /\ crashed = FALSE

Self(b) == [name |-> b, _control |-> _control[b], ctors |-> ctorCount[b]]

\* The bookkeeping common to every press.
Dispatched(b, io, r) ==
    /\ handles' = r.cache
    /\ failedLast' = [failedLast EXCEPT ![b] = IsOSError(r.exc)]
    /\ presses' = presses + 1
    /\ lastButton' = b
    /\ lastFault' = io.fault
    /\ trace' = r.calls
    /\ raised' = r.exc
    /\ printed' = r.printed
    /\ crashed' = r.escaped
    /\ UNCHANGED host

WebOsDispatched(b, io, r) ==
    /\ _control' = [_control EXCEPT ![b] = r._control]
    /\ ctorCount' = [ctorCount EXCEPT
                       ![b] = @ + CountCalls(r.calls, "construct")]
    /\ connectCount' = [connectCount EXCEPT
                          ![b] = @ + CountCalls(r.calls, "connect_input")]
    /\ Dispatched(b, io, r)

PressWebOsButton(b) ==
    /\ presses < MaxPresses /\ ~crashed
    /\ \E io \in WebOsIos(b) :
         WebOsDispatched(b, io, WebOsButton_on_press(Self(b), handles, io))

PressApplicationButton(b) ==
    /\ presses < MaxPresses /\ ~crashed
    /\ \E io \in WebOsIos(b) :
         WebOsDispatched(b, io,
                         ApplicationButton_on_press(Self(b), handles, io))

PressPowerOn ==
    /\ presses < MaxPresses /\ ~crashed
    /\ \E io \in PowerOnIos :
         /\ Dispatched("PowerOn", io,
                       PowerOn_on_press([host |-> host], handles, io))
         /\ UNCHANGED <<_control, ctorCount, connectCount>>

Next ==
    \/ \E b \in SystemButtons \cup MediaButtons \cup InputButtons :
         PressWebOsButton(b)
    \/ \E b \in ApplicationButtons : PressApplicationButton(b)
    \/ PressPowerOn

Spec == Init /\ [][Next]_vars

----------------------------------------------------------------------------
(* Vocabulary of the properties.                                           *)

\* The step is a press of button b.
Pressed(b) == presses' = presses + 1 /\ lastButton' = b

\* The positions of the calls of one kind in the calls of the latest press.
CallsOf(call) == {i \in 1..Len(trace) : trace[i].call = call}

\* The positions at which the latest press invoked a command of a facade.
CommandCalls == CallsOf("method") \cup CallsOf("launch")

\* The facade class of each capability kind.
FacadeClass(b) ==
    IF b \in SystemButtons THEN "SystemControl"
    ELSE IF b \in MediaButtons THEN "MediaControl"
    ELSE IF b \in ApplicationButtons THEN "ApplicationControl"
    ELSE "InputControl"

----------------------------------------------------------------------------
\* C1 (as stated): after any press of a WebOS button, the first one
\* included, the facade constructor has run exactly once for that button and
\* the button holds the facade.
C1_FirstPressConstructs ==
    lastButton \in WebOsButtons =>
        /\ ctorCount[lastButton] = 1
        /\ _control[lastButton] # NoneVal

\* C1 (amended): every WebOS button constructs its facade in the first press
\* whose adapter.create succeeds, the constructor runs at most once per
\* button over the whole run, every later press constructs nothing and sends
\* its command to the cached facade, and the cached facade is never replaced.
C1_FacadeConstructedOnce ==
    [][\A b \in WebOsButtons :
          /\ ctorCount'[b] <= 1
          /\ (_control'[b] # NoneVal) <=> (ctorCount'[b] = 1)
          /\ (Pressed(b) /\ _control[b] = NoneVal /\ handles' # {}) =>
                /\ ctorCount'[b] = 1
                /\ _control'[b].cls = FacadeClass(b)
          /\ _control[b] # NoneVal =>
                /\ _control'[b] # NoneVal
                /\ _control'[b].id = _control[b].id
                /\ ctorCount'[b] = ctorCount[b]
          /\ (Pressed(b) /\ _control[b] # NoneVal) =>
                \A i \in 1..Len(trace') :
                    /\ trace'[i].call \in {"method", "launch"}
                    /\ trace'[i].on = _control[b].id]_vars

\* C1 witness: a press of a button that already held its facade reused it.
C1_Witness ==
    /\ lastButton \in WebOsButtons
    /\ ctorCount[lastButton] = 1
    /\ CallsOf("construct") = {}
    /\ CommandCalls # {}

----------------------------------------------------------------------------
\* C2 (as stated): after any press of an Input button, the first one
\* included, exactly one connect_input call has been made for that button.
C2_ConnectInFirstPress ==
    lastButton \in InputButtons => connectCount[lastButton] = 1

\* C2 (amended): an Input button calls connect_input at most once over the
\* whole run, in the press that constructs its facade and right after the
\* construction; a press of a button that holds a facade never calls it,
\* whether or not that one call succeeded.
C2_ConnectInputOnce ==
    /\ \A b \in InputButtons :
          /\ connectCount[b] <= 1
          /\ connectCount[b] = ctorCount[b]
          /\ (_control[b] # NoneVal) <=> (connectCount[b] = 1)
    /\ \A b \in WebOsButtons \ InputButtons : connectCount[b] = 0
    /\ lastButton \in InputButtons =>
          \A i \in CallsOf("connect_input") :
              /\ i > 1
              /\ trace[i - 1].call = "construct"
              /\ trace[i].on = trace[i - 1].on

\* C2 witness: an Input button whose one connect_input call failed was
\* pressed again and did not call connect_input.
C2_Witness ==
    /\ lastButton \in InputButtons
    /\ connectCount[lastButton] = 1
    /\ ~_control[lastButton].connected
    /\ CallsOf("connect_input") = {}
    /\ CommandCalls # {}

----------------------------------------------------------------------------
\* C3 (as stated): a network-level error raised by a press of a WebOS button
\* does not leave on_press, and when the latest press of a button raised
\* such an error, a press of that button made while the transport works
\* invokes its command and completes without an error.
C3_UsableAfterNetworkError ==
    [][\A b \in WebOsButtons :
          /\ (Pressed(b) /\ IsOSError(raised')) => ~crashed'
          /\ (Pressed(b) /\ failedLast[b] /\ lastFault' = "none") =>
                /\ raised' = "None"
                /\ \E i \in 1..Len(trace') :
                       trace'[i].call \in {"method", "launch"}]_vars

----------------------------------------------------------------------------
\* C4 (as stated): an OSError raised during the activation of any element,
\* the power-on button included, is printed and does not leave on_press.
C4_ErrorsCaughtEverywhere ==
    IsOSError(raised) => (printed /\ ~crashed)

----------------------------------------------------------------------------
\* C5: a press of the power-on button makes exactly two calls, the address
\* lookup of the configured host and then the wake packet for the address
\* the lookup returned; it makes no call to the adapter or to a facade and
\* leaves every cached facade and the cached handle as they were.
C5_PowerOnBypassesClient ==
    [][Pressed("PowerOn") =>
          /\ Len(trace') = 2
          /\ trace'[1].call = "get_mac_address"
          /\ trace'[1].args = <<host>>
          /\ trace'[2].call = "send_magic_packet"
          /\ trace'[2].args = <<trace'[1].ret>>
          /\ _control' = _control
          /\ handles' = handles
          /\ ctorCount' = ctorCount
          /\ connectCount' = connectCount]_vars

\* C5 witness: the power-on button was pressed while a connection handle and
\* a facade were cached.
C5_Witness ==
    /\ lastButton = "PowerOn"
    /\ handles # {}
    /\ \E b \in WebOsButtons : _control[b] # NoneVal
    /\ Len(trace) = 2

----------------------------------------------------------------------------
\* C6: at most one connection handle exists, it is the handle of
\* (~/.lgtv.yaml, 'living_room'), every adapter.create call asks for that
\* pair and returns that handle when it succeeds, and every cached facade
\* wraps it.
C6_OneSharedHandle ==
    /\ Cardinality(handles) <= 1
    /\ \A h \in handles : h.name = "living_room" /\ h.path = "~/.lgtv.yaml"
    /\ \A b \in WebOsButtons :
          _control[b] # NoneVal => _control[b].client \in handles
    /\ \A i \in CallsOf("adapter.create") :
          /\ trace[i].args = <<"~/.lgtv.yaml", "living_room">>
          /\ trace[i].ret # NoneVal => trace[i].ret \in handles

\* C6 witness: two buttons of different kinds hold facades over one handle.
C6_Witness ==
    \E b1 \in MediaButtons, b2 \in InputButtons :
        /\ _control[b1] # NoneVal
        /\ _control[b2] # NoneVal
        /\ _control[b1].client = _control[b2].client
        /\ handles = {_control[b1].client}

----------------------------------------------------------------------------
\* C7: a press of the application-launch button that reaches the facade
\* makes exactly one command call, launch, with the descriptor
\* {id: 'com.palm.app.settings'}, the command string unchanged; it never
\* calls a method named by the command string.
C7_LaunchDescriptor ==
    lastButton \in ApplicationButtons =>
        /\ CallsOf("method") = {}
        /\ _control[lastButton] # NoneVal =>
              /\ Cardinality(CallsOf("launch")) = 1
              /\ \A i \in CallsOf("launch") :
                    /\ trace[i].on = _control[lastButton].id
                    /\ trace[i].args = <<[id |-> Command(lastButton)]>>
                    /\ trace[i].args[1].id =
                         <<"c","o","m",".","p","a","l","m",".",
                           "a","p","p",".","s","e","t","t","i","n","g","s">>

\* C7 witness: the settings button launched the application.
C7_Witness ==
    /\ lastButton = "SettingsApp"
    /\ CallsOf("launch") # {}
    /\ raised = "None"

----------------------------------------------------------------------------
\* The commands the claim names for each capability kind.
NamedSystemCommands == {<<"p","o","w","e","r","_","o","f","f">>}
NamedMediaCommands ==
    {<<"v","o","l","u","m","e","_","u","p">>,
     <<"v","o","l","u","m","e","_","d","o","w","n">>,
     <<"m","u","t","e">>, <<"r","e","w","i","n","d">>,
     <<"p","a","u","s","e">>, <<"p","l","a","y">>,
     <<"f","a","s","t","_","f","o","r","w","a","r","d">>}
NamedInputCommands ==
    {<<"u","p">>, <<"d","o","w","n">>, <<"l","e","f","t">>,
     <<"r","i","g","h","t">>, <<"h","o","m","e">>, <<"b","a","c","k">>,
     <<"o","k">>}

\* C8: a press of a non-launch WebOS button that completes without an error
\* made exactly one command call: a method call with no arguments whose name
\* is the button's command string, on the button's facade, which is of the
\* button's capability kind; the command is one of those named for the kind.
C8_OneMethodByCommandName ==
    (lastButton \in WebOsButtons \ ApplicationButtons /\ raised = "None") =>
        /\ CallsOf("launch") = {}
        /\ Cardinality(CallsOf("method")) = 1
        /\ \A i \in CallsOf("method") :
              /\ trace[i].name = Command(lastButton)
              /\ trace[i].args = <<>>
              /\ trace[i].on = _control[lastButton].id
        /\ _control[lastButton].cls = FacadeClass(lastButton)
        /\ lastButton \in SystemButtons =>
              Command(lastButton) \in NamedSystemCommands
        /\ lastButton \in MediaButtons =>
              Command(lastButton) \in NamedMediaCommands
        /\ lastButton \in InputButtons =>
              Command(lastButton) \in NamedInputCommands

\* C8 witness: each of the three kinds completed a press.
C8_Witness ==
    /\ lastButton \in {"PowerOff", "Play", "Ok"}
    /\ raised = "None"
    /\ CallsOf("method") # {}

----------------------------------------------------------------------------
\* The latest press raised before it reached the command call.
AcquisitionFailed == raised # "None" /\ CommandCalls = {}

\* C9 (as stated): a button holds a facade only after a press whose
\* acquisition succeeded; a press whose acquisition fails leaves the button
\* without a facade; a button that holds a facade keeps it.
C9_UninitializedUntilAcquired ==
    [][\A b \in WebOsButtons :
          /\ (_control[b] = NoneVal /\ _control'[b] # NoneVal) =>
                (Pressed(b) /\ ~AcquisitionFailed')
          /\ (Pressed(b) /\ AcquisitionFailed') => _control'[b] = NoneVal
          /\ _control[b] # NoneVal => _control'[b] # NoneVal]_vars

----------------------------------------------------------------------------
\* C10 (as stated): a command is sent on an Input facade only when its
\* connect_input call has completed.
C10_CommandsOnConnectedChannel ==
    (lastButton \in InputButtons /\ CallsOf("method") # {}) =>
        _control[lastButton].connected
====
